---- MODULE Spec2Model ----
(***************************************************************************)
(* Chain execution engine of deepseek-mcp-with-MoE: the TTL cache          *)
(* (src/src/cache.ts) and the ToolChainManager (src/src/tool-chain.ts).    *)
(*                                                                         *)
(* JavaScript values are tagged records [t |-> typeTag, v |-> payload];    *)
(* an object is the sequence of its own properties <<key, value>> in       *)
(* insertion order.  Strings are TLA+ strings, so that cache keys and      *)
(* serialized payloads are built by concatenation as the code builds them. *)
(* String contents are kept free of the characters '"' and '\', which      *)
(* JSON.stringify would escape.                                            *)
(***************************************************************************)
EXTENDS Integers, Sequences, FiniteSets, TLC

VARIABLES
    tools,      \* ToolChainManager.tools : Map name -> ChainableToolConfig
    store,      \* Cache.store            : Map key  -> CacheEntry
    clock,      \* Date.now(), in milliseconds
    exec,       \* the executeChain calls in flight, by call slot
    last,       \* the executeChain call that returned last
    calls,      \* how many executeChain calls have been made
    origin,     \* for each cache key, which write put its entry there
    stepDone,   \* for each step key, the last successful invocation
    out,        \* what the last direct Cache operation returned
    probe       \* inputs and outputs of the pure functions under test

vars == <<tools, store, clock, exec, last, calls, origin, stepDone, out, probe>>

---------------------------------------------------------------------------
(* Bounds of the model *)

MaxChainLen == 2
MaxCalls == 2
MaxClock == 3600001
MaxCacheClock == 2001
MaxSchemaProps == 2

---------------------------------------------------------------------------
(* JavaScript values *)

Undefined == [t |-> "undefined"]
Null == [t |-> "null"]
Bool(b) == [t |-> "boolean", v |-> b]
Str(s) == [t |-> "string", v |-> s]
Num(n) == [t |-> "number", v |-> n]
Obj(props) == [t |-> "object", v |-> props]
Arr(items) == [t |-> "array", v |-> items]

\* typeof x
TypeOf(x) ==
    CASE x.t = "null" -> "object"
      [] x.t = "array" -> "object"
      [] OTHER -> x.t

\* ToBoolean(x): the test of `if (x)` and of `!x`
Truthy(x) ==
    CASE x.t = "undefined" -> FALSE
      [] x.t = "null" -> FALSE
      [] x.t = "boolean" -> x.v
      [] x.t = "string" -> x.v /= ""
      [] x.t = "number" -> x.v /= 0
      [] OTHER -> TRUE

\* key in o, for an object o
HasKey(o, k) == \E j \in 1..Len(o.v) : o.v[j][1] = k

\* o[k] (o.k): undefined when o has no such own property; an array has
\* none of the property names used here
GetProp(o, k) ==
    IF o.t = "object" /\ HasKey(o, k)
    THEN o.v[CHOOSE j \in 1..Len(o.v) : o.v[j][1] = k][2]
    ELSE Undefined

\* mutant: on a key that both objects have, the value of a is kept
SpreadKeepFirst(a, b) ==
    IF b.t /= "object" THEN a
    ELSE Obj(a.v \o SelectSeq(b.v, LAMBDA p : ~HasKey(a, p[1])))

\* { ...a, ...b } for objects a, b; b undefined or null spreads nothing
Spread(a, b) ==
    IF b.t /= "object" THEN a
    ELSE LET kept == [j \in 1..Len(a.v) |->
                        IF HasKey(b, a.v[j][1])
                        THEN <<a.v[j][1], GetProp(b, a.v[j][1])>>
                        ELSE a.v[j]]
             added == SelectSeq(b.v, LAMBDA p : ~HasKey(a, p[1]))
         IN Obj(kept \o added)

RECURSIVE JoinStrings(_, _)
\* parts.join(sep)
JoinStrings(parts, sep) ==
    IF Len(parts) = 0 THEN ""
    ELSE IF Len(parts) = 1 THEN parts[1]
    ELSE parts[1] \o sep \o JoinStrings(Tail(parts), sep)

RECURSIVE JSONstringify(_)
\* JSON.stringify(x) for the values above: a property whose value is
\* undefined is omitted, an undefined array element is written null
JSONstringify(x) ==
    CASE x.t = "undefined" -> "undefined"
      [] x.t = "null" -> "null"
      [] x.t = "boolean" -> IF x.v THEN "true" ELSE "false"
      [] x.t = "number" -> ToString(x.v)
      [] x.t = "string" -> "\"" \o x.v \o "\""
      [] x.t = "array" ->
            "[" \o JoinStrings([j \in 1..Len(x.v) |->
                       IF x.v[j].t = "undefined" THEN "null"
                       ELSE JSONstringify(x.v[j])], ",") \o "]"
      [] x.t = "object" ->
            LET shown == SelectSeq(x.v, LAMBDA p : p[2].t /= "undefined")
            IN "{" \o JoinStrings([j \in 1..Len(shown) |->
                       "\"" \o shown[j][1] \o "\":" \o JSONstringify(shown[j][2])],
                       ",") \o "}"

---------------------------------------------------------------------------
(* Cache (src/src/cache.ts) *)

\* CacheEntry
Entry(result, timestamp, ttl, metadata) ==
    [result |-> result, timestamp |-> timestamp, ttl |-> ttl, metadata |-> metadata]

\* mutant: an entry read at exactly timestamp + ttl counts as expired
ExpiredAtBoundary(entry, now) == now - entry.timestamp >= entry.ttl * 1000

\* the test `now - entry.timestamp > entry.ttl * 1000`
Expired(entry, now) == now - entry.timestamp > entry.ttl * 1000

\* Map.delete(key)
MapDelete(st, key) == [k \in DOMAIN st \ {key} |-> st[k]]

\* Map.set(key, entry)
MapSet(st, key, entry) == [k \in DOMAIN st \cup {key} |-> IF k = key THEN entry ELSE st[k]]

\* mutant: a successful get restarts the life of the entry
CacheGetRefreshing(st, key, now) ==
    IF key \notin DOMAIN st THEN [store |-> st, ret |-> Null]
    ELSE IF Expired(st[key], now) THEN [store |-> MapDelete(st, key), ret |-> Null]
    ELSE [store |-> MapSet(st, key, [st[key] EXCEPT !.timestamp = now]),
          ret |-> Str(st[key].result)]

\* Cache.get(key): the store afterwards and the value returned
CacheGet(st, key, now) ==
    IF key \notin DOMAIN st THEN [store |-> st, ret |-> Null]
    ELSE IF Expired(st[key], now) THEN [store |-> MapDelete(st, key), ret |-> Null]
    ELSE [store |-> st, ret |-> Str(st[key].result)]

\* Cache.set(key, result, ttl, metadata)
CacheSet(st, key, result, ttl, metadata, now) ==
    MapSet(st, key, Entry(result, now, ttl, metadata))

\* mutant: getMetadata answers null for an entry whose ttl has elapsed
CacheGetMetadataChecked(st, key) ==
    IF key \in DOMAIN st /\ ~Expired(st[key], clock) /\ Truthy(st[key].metadata)
    THEN st[key].metadata ELSE Null

\* Cache.getMetadata(key): entry?.metadata || null
CacheGetMetadata(st, key) ==
    IF key \in DOMAIN st /\ Truthy(st[key].metadata) THEN st[key].metadata ELSE Null

\* mutant: has only asks the Map, without the expiry check of get
CacheHasNoExpiry(st, key, now) == [store |-> st, ret |-> Bool(key \in DOMAIN st)]

\* Cache.has(key): this.get(key) !== null
CacheHas(st, key, now) ==
    LET g == CacheGet(st, key, now)
    IN [store |-> g.store, ret |-> Bool(g.ret /= Null)]

\* Cache.delete(key)
CacheDelete(st, key) == MapDelete(st, key)

\* Cache.clear()
CacheClear(st) == [k \in {} |-> Null]

\* mutant: cleanup also removes the entries read at exactly timestamp + ttl
CacheCleanupAtBoundary(st, now) ==
    [k \in {q \in DOMAIN st : now - st[q].timestamp < st[q].ttl * 1000} |-> st[k]]

\* Cache.cleanup()
CacheCleanup(st, now) == [k \in {q \in DOMAIN st : ~Expired(st[q], now)} |-> st[k]]

\* Cache.generateChainKey(steps)
GenerateChainKey(steps) ==
    JoinStrings([j \in 1..Len(steps) |->
                    steps[j].toolName \o ":" \o JSONstringify(steps[j].params)], "|")

---------------------------------------------------------------------------
(* Inputs: tools, steps, chains, collaborator outcomes *)

StepTTL == 3600
ChainTTL == 3600

\* ValidationSchema values handed to registerTool
EchoSchema ==
    [properties |-> << <<"msg", [type |-> Str("string")]>> >>,
     required |-> Arr(<<Str("msg")>>)]
StrictSchema ==
    [properties |-> << <<"msg", [type |-> Str("string")]>>,
                       <<"lang", [type |-> Str("string")]>> >>,
     required |-> Arr(<<Str("msg"), Str("lang")>>)]
OpenSchema == [properties |-> <<>>, required |-> Undefined]

\* ChainableToolConfig values handed to registerTool
ToolConfig(name, schema, requiresPrevious) ==
    [name |-> name, inputSchema |-> schema, chainable |-> TRUE,
     requiresPrevious |-> requiresPrevious]
ToolConfigs ==
    { ToolConfig("echo", EchoSchema, Undefined),
      ToolConfig("echo", StrictSchema, Undefined),
      ToolConfig("needs_prev", OpenSchema, Bool(TRUE)) }

\* ToolChainStep values a caller submits
Step(toolName, params, metadata) ==
    [toolName |-> toolName, params |-> params, metadata |-> metadata]
MetaV == Obj(<< <<"k", Str("v")>> >>)
MetaW == Obj(<< <<"k", Str("w")>>, <<"n", Str("x")>> >>)
HiParams == Obj(<< <<"msg", Str("hi")>> >>)
StepPool ==
    { Step("echo", HiParams, Undefined),
      Step("needs_prev", Obj(<<>>), MetaW) }

SeqUpTo(S, n) == UNION {[1..m -> S] : m \in 0..n}

\* chain.steps of the chains a caller submits
Chains == SeqUpTo(StepPool, MaxChainLen)

\* steps that carry metadata, with colliding keys, and one whose params the
\* echo schema rejects
StepV == Step("echo", HiParams, MetaV)
StepW == Step("echo", Obj(<< <<"msg", Str("yo")>> >>), MetaW)
StepBad == Step("echo", Obj(<<>>), MetaW)
StepPlain == Step("echo", Obj(<< <<"msg", Str("ok")>> >>), Undefined)

\* chain.steps of the chains submitted to study metadata and context
MetaChains ==
    { <<StepV, StepW, StepPlain>>,
      <<StepW, StepV, StepPlain>>,
      <<StepV, StepBad>>,
      <<StepBad>> }

MetaConfigs == {ToolConfig("echo", EchoSchema, Undefined)}

\* what the tool handler does when it is invoked: it returns a value or
\* throws (an Error with a message, or something that is not an Error)
ToolOutcomes ==
    { [kind |-> "return", value |-> Str("r1")],
      [kind |-> "throw", isError |-> TRUE, message |-> "boom"],
      [kind |-> "throw", isError |-> FALSE, message |-> ""] }

---------------------------------------------------------------------------
(* JSON.parse, as the inverse of JSON.stringify on the texts the manager   *)
(* can have written; any other text is a SyntaxError                       *)

StoredResults ==
    { Obj(<< <<"success", Bool(TRUE)>>, <<"result", o.value>> >>
          \o (IF m = Undefined THEN <<>> ELSE << <<"metadata", m>> >>)) :
        o \in {x \in ToolOutcomes : x.kind = "return"},
        m \in {s.metadata : s \in StepPool} \cup {MetaV, MetaW, Undefined} }

JsonUniverse ==
    StoredResults
      \cup {Arr(s) : s \in SeqUpTo(StoredResults, MaxChainLen)}
      \cup UNION {{Arr(s) : s \in [1..Len(c) -> StoredResults]} : c \in MetaChains}

JsonText == [v \in JsonUniverse |-> JSONstringify(v)]

JSONparse(text) ==
    LET hits == {v \in JsonUniverse : JsonText[v] = text}
    IN IF hits = {} THEN [ok |-> FALSE]
       ELSE [ok |-> TRUE, value |-> CHOOSE v \in hits : TRUE]

---------------------------------------------------------------------------
(* ToolChainManager (src/src/tool-chain.ts) *)

RECURSIVE ValidateFrom(_, _, _)
\* the loop of validateParams from the j-th declared property on: the
\* first violation throws
ValidateFrom(params, schema, j) ==
    IF j > Len(schema.properties) THEN [ok |-> TRUE]
    ELSE LET key == schema.properties[j][1]
             value == schema.properties[j][2]
             isRequired == /\ schema.required.t = "array"
                           /\ \E q \in 1..Len(schema.required.v) :
                                 schema.required.v[q] = Str(key)
         IN IF isRequired /\ ~HasKey(params, key)
            THEN [ok |-> FALSE,
                  message |-> "Missing required parameter: " \o key]
            ELSE IF /\ HasKey(params, key)
                    /\ Truthy(value.type)
                    /\ Str(TypeOf(GetProp(params, key))) /= value.type
            THEN [ok |-> FALSE,
                  message |-> "Invalid type for parameter " \o key
                              \o ": expected " \o value.type.v
                              \o ", got " \o TypeOf(GetProp(params, key))]
            ELSE ValidateFrom(params, schema, j + 1)

\* mutant: only the required properties are checked, not the types
ValidateParamsRequiredOnly(params, schema) ==
    IF \E j \in 1..Len(schema.properties) :
          /\ schema.required.t = "array"
          /\ \E q \in 1..Len(schema.required.v) :
                schema.required.v[q] = Str(schema.properties[j][1])
          /\ ~HasKey(params, schema.properties[j][1])
    THEN [ok |-> FALSE, message |-> "Missing required parameter"]
    ELSE [ok |-> TRUE]

\* validateParams(params, schema)
ValidateParams(params, schema) == ValidateFrom(params, schema, 1)

\* the step cache key of executeStep
StepKey(step) == step.toolName \o ":" \o JSONstringify(step.params)

\* one entry of the log of what a call did
Ev(name, i, key) == [ev |-> name, i |-> i, key |-> key]

\* mutant: an unknown name resolves to a default tool
ToolsGetOrDefault(tl, name) ==
    IF name \in DOMAIN tl THEN tl[name] ELSE ToolConfig(name, OpenSchema, Undefined)

\* this.tools.get(name)
ToolsGet(tl, name) == IF name \in DOMAIN tl THEN tl[name] ELSE Undefined

\* mutant: a payload that does not parse is returned as it is
ParseCachedRaw(ret) ==
    IF ~Truthy(ret) THEN [ok |-> FALSE, bad |-> FALSE]
    ELSE IF JSONparse(ret.v).ok
    THEN [ok |-> TRUE, bad |-> FALSE, value |-> JSONparse(ret.v).value]
    ELSE [ok |-> TRUE, bad |-> TRUE, value |-> ret]

\* `if (cachedResult) { try { JSON.parse(cachedResult) } catch ... }`: the
\* parsed value, or no value when there is no payload or it does not parse;
\* bad when the catch ran (it reports the error on the console)
ParseCached(ret) ==
    IF ~Truthy(ret) THEN [ok |-> FALSE, bad |-> FALSE]
    ELSE IF JSONparse(ret.v).ok
    THEN [ok |-> TRUE, bad |-> FALSE, value |-> JSONparse(ret.v).value]
    ELSE [ok |-> FALSE, bad |-> TRUE]

\* the whole-chain lookup once the payload has been read and parsed
ChainLookupParsed(chainKey, st, parsed) ==
    [chainKey |-> chainKey, store |-> st, hit |-> parsed.ok, bad |-> parsed.bad,
     value |-> IF parsed.ok THEN parsed.value ELSE Undefined]

\* mutant: the whole-chain entry is read but never used
ChainLookupNeverHit(steps, st, now) ==
    LET chainKey == GenerateChainKey(steps)
        g == CacheGet(st, chainKey, now)
    IN [chainKey |-> chainKey, store |-> g.store, hit |-> FALSE, bad |-> FALSE,
        value |-> Undefined]

\* the whole-chain lookup that opens executeChain
ChainLookup(steps, st, now) ==
    ChainLookupParsed(GenerateChainKey(steps),
                      CacheGet(st, GenerateChainKey(steps), now).store,
                      ParseCached(CacheGet(st, GenerateChainKey(steps), now).ret))

\* mutant: the step cache is read but its entry is never used
ExecuteStepCachedNeverHit(step, i, prev, st, parsed) ==
    [kind |-> "await", store |-> st,
     log |-> <<Ev("resolve", i, step.toolName), Ev("prereq", i, prev),
               Ev("validate", i, ""), Ev("stepGet", i, StepKey(step)),
               Ev("invoke", i, "")>>]

\* mutant: on a miss the next step is resolved while the tool is invoked
ExecuteStepCachedAhead(step, i, prev, st, parsed) ==
    LET seen == <<Ev("resolve", i, step.toolName), Ev("prereq", i, prev),
                  Ev("validate", i, ""), Ev("stepGet", i, StepKey(step))>>
    IN IF parsed.ok
       THEN [kind |-> "return", store |-> st, value |-> parsed.value, log |-> seen]
       ELSE [kind |-> "await", store |-> st,
             log |-> seen \o <<Ev("invoke", i, ""), Ev("resolve", i + 1, "")>>]

\* executeStep from the step cache lookup on, the payload read and parsed;
\* prev is context.previousResults.length as the prerequisite check saw it
ExecuteStepCached(step, i, prev, st, parsed) ==
    LET seen == <<Ev("resolve", i, step.toolName), Ev("prereq", i, prev),
                  Ev("validate", i, ""), Ev("stepGet", i, StepKey(step))>>
    IN IF parsed.ok
       THEN [kind |-> "return", store |-> st, value |-> parsed.value, log |-> seen]
       ELSE [kind |-> "await", store |-> st,
             log |-> seen \o (IF parsed.bad
                              THEN <<Ev("parseError", i, StepKey(step))>> ELSE <<>>)
                         \o <<Ev("invoke", i, "")>>]

\* mutant: the step cache is read before the params are validated
ExecuteStepCacheFirst(step, i, prev, st, now, valid) ==
    IF ParseCached(CacheGet(st, StepKey(step), now).ret).ok \/ valid.ok
    THEN ExecuteStepCached(step, i, prev, CacheGet(st, StepKey(step), now).store,
                           ParseCached(CacheGet(st, StepKey(step), now).ret))
    ELSE [kind |-> "throw", store |-> st, message |-> valid.message,
          log |-> <<Ev("resolve", i, step.toolName), Ev("prereq", i, prev),
                    Ev("stepGet", i, StepKey(step)),
                    Ev("validate", i, ""), Ev("throw", i, valid.message)>>]

\* executeStep from the outcome of validateParams on
ExecuteStepValidated(step, i, prev, st, now, valid) ==
    IF ~valid.ok
    THEN [kind |-> "throw", store |-> st, message |-> valid.message,
          log |-> <<Ev("resolve", i, step.toolName), Ev("prereq", i, prev),
                    Ev("validate", i, ""), Ev("throw", i, valid.message)>>]
    ELSE ExecuteStepCached(step, i, prev, CacheGet(st, StepKey(step), now).store,
                           ParseCached(CacheGet(st, StepKey(step), now).ret))

\* executeStep up to its await: the tool is resolved, the prerequisite and
\* the params are checked, the step cache is read.  The step throws, or
\* returns the cached result, or goes on to invoke the tool.
ExecuteStepCheck(step, i, context, tl, st, now) ==
    LET tool == ToolsGet(tl, step.toolName)
    IN IF tool = Undefined
       THEN [kind |-> "throw", store |-> st,
             message |-> "Tool not found: " \o step.toolName,
             log |-> <<Ev("resolve", i, step.toolName),
                       Ev("throw", i, "Tool not found: " \o step.toolName)>>]
       ELSE IF Truthy(tool.requiresPrevious) /\ Len(context.previousResults) = 0
       THEN [kind |-> "throw", store |-> st,
             message |-> "Tool " \o step.toolName \o " requires previous results",
             log |-> <<Ev("resolve", i, step.toolName),
                       Ev("prereq", i, ToString(Len(context.previousResults))),
                       Ev("throw", i, "Tool " \o step.toolName
                                      \o " requires previous results")>>]
       ELSE ExecuteStepValidated(step, i, ToString(Len(context.previousResults)),
                                 st, now,
                                 ValidateParams(step.params, tool.inputSchema))

\* executeStep from the return of the tool handler on
ExecuteStepInvoke(step, i, outcome, st, now) ==
    IF outcome.kind = "return"
    THEN LET result == Obj(<< <<"success", Bool(TRUE)>>,
                              <<"result", outcome.value>>,
                              <<"metadata", step.metadata>> >>)
         IN [kind |-> "return", value |-> result,
             store |-> CacheSet(st, StepKey(step), JSONstringify(result),
                                StepTTL, Undefined, now),
             log |-> <<Ev("stepSet", i, StepKey(step))>>]
    ELSE [kind |-> "return", store |-> st,
          log |-> <<Ev("caught", i, IF outcome.isError THEN outcome.message
                                    ELSE "Unknown error")>>,
          value |-> Obj(<< <<"success", Bool(FALSE)>>,
                           <<"result", Null>>,
                           <<"error", Str(IF outcome.isError THEN outcome.message
                                          ELSE "Unknown error")>>,
                           <<"metadata", step.metadata>> >>)]

\* the catch of the loop of executeChain: a failed entry without metadata
\* is pushed and the loop ends
RecordThrown(settled, results, context) ==
    [results |-> Append(results,
                    Obj(<< <<"success", Bool(FALSE)>>,
                           <<"result", Null>>,
                           <<"error", Str(settled.message)>> >>)),
     context |-> context, goOn |-> FALSE, raised |-> FALSE]

\* the try of the loop of executeChain: the result is pushed; a result
\* whose success is not truthy ends the loop, any other is appended to the
\* context and its metadata merged
RecordReturned(settled, results, context) ==
    IF ~Truthy(GetProp(settled.value, "success"))
    THEN [results |-> Append(results, settled.value),
          context |-> context, goOn |-> FALSE, raised |-> FALSE]
    ELSE [results |-> Append(results, settled.value),
          context |->
             [previousResults |-> Append(context.previousResults, settled.value),
              metadata |-> IF Truthy(GetProp(settled.value, "metadata"))
                           THEN Spread(context.metadata,
                                       GetProp(settled.value, "metadata"))
                           ELSE context.metadata],
          goOn |-> TRUE, raised |-> FALSE]

\* mutant: the loop does not break on a failed result
RecordResultNoBreak(settled, results, context) ==
    IF settled.kind = "throw"
    THEN [RecordThrown(settled, results, context) EXCEPT !.goOn = TRUE]
    ELSE [RecordReturned(settled, results, context) EXCEPT !.goOn = TRUE]

\* mutant: the loop has no catch, what executeStep throws leaves executeChain
RecordResultRethrow(settled, results, context) ==
    IF settled.kind = "throw"
    THEN [results |-> results, context |-> context, goOn |-> FALSE, raised |-> TRUE]
    ELSE RecordReturned(settled, results, context)

\* mutant: a successful result is pushed but the context is left as it was
RecordResultNoContext(settled, results, context) ==
    IF settled.kind = "throw"
    THEN RecordThrown(settled, results, context)
    ELSE [RecordReturned(settled, results, context) EXCEPT !.context = context]

\* the body of the loop of executeChain once executeStep has settled:
\* what is pushed on results, the context afterwards, whether the loop
\* goes on, and whether an exception leaves executeChain
RecordResult(settled, results, context) ==
    IF settled.kind = "throw"
    THEN RecordThrown(settled, results, context)
    ELSE RecordReturned(settled, results, context)

\* mutant: the chain result is cached whatever the results are
StoreChainAlways(chainKey, results, st, now) ==
    [store |-> CacheSet(st, chainKey, JSONstringify(Arr(results)),
                        ChainTTL, Undefined, now),
     log |-> <<Ev("chainSet", 0, chainKey)>>]

\* the end of executeChain: the chain result is cached when every result
\* succeeded
StoreChain(chainKey, results, st, now) ==
    IF \A j \in 1..Len(results) : Truthy(GetProp(results[j], "success"))
    THEN [store |-> CacheSet(st, chainKey, JSONstringify(Arr(results)),
                             ChainTTL, Undefined, now),
          log |-> <<Ev("chainSet", 0, chainKey)>>]
    ELSE [store |-> st, log |-> <<>>]

---------------------------------------------------------------------------
(* The state machine *)

Slots == {1}

EmptyMap == [k \in {} |-> Null]

Idle == [pc |-> "idle"]

NoCall == [hit |-> FALSE, raised |-> FALSE, steps |-> <<>>, chainKey |-> "",
           ret |-> Undefined, log |-> <<>>, n |-> 0, registered |-> {}, tl |-> EmptyMap,
           atStart |-> [kind |-> "none"], retry |-> [k |-> 0, warm |-> FALSE],
           reuse |-> <<>>]

\* mutant: executeChain goes on from the context of the chain object
ChainContextReused == probe.context

\* a ToolChainContext as executeChain creates it
FreshContext == [previousResults |-> <<>>, metadata |-> Obj(<<>>)]

\* what executeStep settled with, as the loop of executeChain sees it
Settled(c) ==
    CASE c.kind = "throw" -> [kind |-> "throw", message |-> c.message]
      [] c.kind = "return" -> [kind |-> "return", value |-> c.value]
      [] OTHER -> [kind |-> "none"]

\* bookkeeping: the entries of m under the keys still in the store st
Keep(m, st) == [k \in DOMAIN m \cap DOMAIN st |-> m[k]]

\* bookkeeping: the step at which the tool handler failed in the call with
\* record c, 0 when it did not
FailedInvocationAt(c) ==
    IF \E q \in 1..Len(c.log) : c.log[q].ev = "caught"
    THEN c.log[CHOOSE q \in 1..Len(c.log) : c.log[q].ev = "caught"].i
    ELSE 0

\* bookkeeping: whether a call with these steps repeats the call before it
\* (record prev), which ended with a failed invocation at step k, under the
\* same registry; warm when the step entries of the steps before k are live
RetryOf(prev, steps, tl, st, now) ==
    IF /\ prev.n > 0
       /\ prev.steps = steps
       /\ prev.tl = tl
       /\ FailedInvocationAt(prev) > 0
    THEN [k |-> FailedInvocationAt(prev),
          warm |-> \A j \in 1..(FailedInvocationAt(prev) - 1) :
                      /\ StepKey(steps[j]) \in DOMAIN st
                      /\ ~Expired(st[StepKey(steps[j])], now)]
    ELSE [k |-> 0, warm |-> FALSE]

\* bookkeeping: the entry a lookup of key finds live at time now, by the
\* write it came from
LiveOrigin(key, now) ==
    IF key \in DOMAIN store /\ key \in DOMAIN origin /\ ~Expired(store[key], now)
    THEN origin[key] ELSE [kind |-> "none"]

\* the call x after executeStep for its step x.i has run up to its await
\* with outcome c; done is stepDone as it stands
StepStarted(x, c, now, done) ==
    LET key == StepKey(x.steps[x.i])
        looked == \E j \in 1..Len(c.log) : c.log[j].ev = "stepGet"
        prior == IF /\ key \in DOMAIN done
                    /\ done[key].n < x.n
                    /\ now - done[key].at <= StepTTL * 1000
                 THEN <<done[key].value>> ELSE <<>>
    IN [exec |-> [x EXCEPT !.pc = IF c.kind = "await" THEN "invoking" ELSE "settled",
                           !.settled = Settled(c),
                           !.log = @ \o c.log,
                           !.reuse = IF looked /\ prior /= <<>>
                                     THEN Append(@, [i |-> x.i, value |-> prior[1]])
                                     ELSE @],
        store |-> c.store]

\* the call x starts executeStep for its step x.i and runs it up to its
\* await
StartStep(x, tl, st, now, done) ==
    StepStarted(x, ExecuteStepCheck(x.steps[x.i], x.i, x.context, tl, st, now),
                now, done)

\* the record of a completed call
Completed(x, ret, hit, raised, log) ==
    [hit |-> hit, raised |-> raised, steps |-> x.steps, chainKey |-> x.chainKey,
     ret |-> ret, log |-> log, n |-> x.n, registered |-> x.registered, tl |-> x.tl,
     atStart |-> x.atStart, retry |-> x.retry, reuse |-> x.reuse]

\* the call x leaves its loop, stores the chain result and returns
FinishChain(x, results, log, st, now) ==
    LET s == StoreChain(x.chainKey, results, st, now)
    IN [finished |-> TRUE,
        done |-> Completed(x, Arr(results), FALSE, FALSE, log \o s.log),
        store |-> s.store,
        wrote |-> s.log /= <<>>,
        results |-> results]

RECURSIVE RunLoop(_, _, _, _, _)
RECURSIVE RunOn(_, _, _, _)
\* the call, its next step started with outcome a: it is suspended in the
\* invocation, or the loop goes on
RunOn(a, tl, now, done) ==
    IF a.exec.pc = "invoking"
    THEN [finished |-> FALSE, exec |-> a.exec, store |-> a.store]
    ELSE RunLoop(a.exec, tl, a.store, now, done)

\* the loop of executeChain from the point where executeStep has settled
\* for step x.i: the result is recorded, and the following steps run for as
\* long as they settle without invoking a tool; the call ends suspended in
\* an invocation, or returns
RunLoop(x, tl, st, now, done) ==
    LET r == RecordResult(x.settled, x.results, x.context)
        log == x.log \o <<Ev("record", x.i, "")>>
    IN IF r.raised
       THEN [finished |-> TRUE, done |-> Completed(x, Undefined, FALSE, TRUE, x.log),
             store |-> st, wrote |-> FALSE, results |-> <<>>]
       ELSE IF r.goOn /\ x.i < Len(x.steps)
       THEN RunOn(StartStep([x EXCEPT !.i = @ + 1, !.results = r.results,
                                      !.context = r.context, !.log = log],
                            tl, st, now, done),
                  tl, now, done)
       ELSE FinishChain(x, r.results, log, st, now)

\* executeChain from the outcome l of its whole-chain lookup on
ChainLookedUp(steps, n, atStart, retry, tl, now, done, l) ==
    LET x == [pc |-> "idle", steps |-> steps, chainKey |-> l.chainKey, i |-> 1,
              results |-> <<>>, context |-> FreshContext,
              settled |-> [kind |-> "none"],
              log |-> <<Ev("chainGet", 0, l.chainKey)>>
                         \o (IF l.bad THEN <<Ev("parseError", 0, l.chainKey)>>
                             ELSE <<>>),
              n |-> n, registered |-> DOMAIN tl, tl |-> tl, atStart |-> atStart,
              retry |-> retry,
              reuse |-> <<>>]
    IN IF l.hit
       THEN [finished |-> TRUE, done |-> Completed(x, l.value, TRUE, FALSE, x.log),
             store |-> l.store, wrote |-> FALSE, results |-> <<>>]
       ELSE IF Len(steps) = 0
       THEN FinishChain(x, <<>>, x.log, l.store, now)
       ELSE RunOn(StartStep(x, tl, l.store, now, done), tl, now, done)

\* executeChain from its call on, up to its first suspension or its return
BeginChain(steps, n, atStart, retry, tl, st, now, done) ==
    ChainLookedUp(steps, n, atStart, retry, tl, now, done, ChainLookup(steps, st, now))

\* bookkeeping: origin (from) after a call has run on with outcome f
OriginAfter(from, f) ==
    IF f.finished /\ f.wrote
    THEN MapSet(Keep(from, f.store), f.done.chainKey,
                [kind |-> "chain", steps |-> f.done.steps,
                 value |-> Arr(f.results)])
    ELSE Keep(from, f.store)

InFlight == {e \in Slots : exec[e].pc /= "idle"}

\* registerTool(config); tools are registered while no call is in progress
\* (src/src/index.ts registers its tools in the constructor, lines 148-150)
RegisterTool(config) ==
    /\ InFlight = {}
    /\ tools' = MapSet(tools, config.name, config)
    /\ UNCHANGED <<store, clock, exec, last, calls, origin, stepDone, out, probe>>

\* the state after a call in slot e has run to f: suspended, or returned
Called(e, f) ==
    /\ store' = f.store
    /\ origin' = OriginAfter(origin, f)
    /\ exec' = IF f.finished THEN exec ELSE [exec EXCEPT ![e] = f.exec]
    /\ last' = IF f.finished THEN f.done ELSE NoCall

\* executeChain(chain) is called and runs to its first suspension, or to
\* its return
Call(e, steps) ==
    /\ exec[e].pc = "idle"
    /\ InFlight = {}
    /\ calls < MaxCalls
    /\ calls' = calls + 1
    /\ Called(e, BeginChain(steps, calls + 1,
                            LiveOrigin(GenerateChainKey(steps), clock),
                            RetryOf(last, steps, tools, store, clock),
                            tools, store, clock, stepDone))
    /\ UNCHANGED <<tools, clock, stepDone, out, probe>>

\* the state after the suspended call in slot e has run on to f
Resumed(e, from, done, f) ==
    /\ store' = f.store
    /\ origin' = OriginAfter(from, f)
    /\ stepDone' = done
    /\ exec' = [exec EXCEPT ![e] = IF f.finished THEN Idle ELSE f.exec]
    /\ last' = IF f.finished THEN f.done ELSE last

\* executeStep of the suspended call in slot e has settled with c;
\* executeChain runs on to the next suspension, or to the return
StepSettled(e, c) ==
    LET x == exec[e]
        key == StepKey(x.steps[x.i])
        wrote == \E j \in 1..Len(c.log) : c.log[j].ev = "stepSet"
        done == IF wrote
                THEN MapSet(stepDone, key, [value |-> c.value, at |-> clock, n |-> x.n])
                ELSE stepDone
        from == IF wrote
                THEN MapSet(origin, key, [kind |-> "step", steps |-> <<x.steps[x.i]>>,
                                          value |-> c.value])
                ELSE origin
    IN Resumed(e, from, done,
               RunLoop([x EXCEPT !.pc = "settled", !.settled = Settled(c),
                                 !.log = @ \o c.log],
                       tools, c.store, clock, done))

\* the tool handler invoked for the current step returns or throws;
\* executeStep and then executeChain run on to the next suspension, or to
\* the return
InvokeReturn(e, outcome) ==
    /\ exec[e].pc = "invoking"
    /\ StepSettled(e, ExecuteStepInvoke(exec[e].steps[exec[e].i], exec[e].i,
                                        outcome, store, clock))
    /\ UNCHANGED <<tools, clock, calls, out, probe>>

\* time passes while a call is suspended, or between calls
TickSteps == {ChainTTL * 1000, ChainTTL * 1000 + 1}

Tick(d) ==
    /\ clock + d <= MaxClock
    /\ clock' = clock + d
    /\ stepDone' = [k \in {q \in DOMAIN stepDone :
                              clock + d - stepDone[q].at <= StepTTL * 1000}
                      |-> stepDone[k]]
    /\ UNCHANGED <<tools, store, exec, last, calls, origin, out, probe>>

Init ==
    /\ tools = EmptyMap
    /\ store = EmptyMap
    /\ clock = 0
    /\ exec = [e \in Slots |-> Idle]
    /\ last = NoCall
    /\ calls = 0
    /\ origin = EmptyMap
    /\ stepDone = EmptyMap
    /\ out = Null
    /\ probe = Null

Next ==
    \/ \E config \in ToolConfigs : RegisterTool(config)
    \/ \E e \in Slots, steps \in Chains : Call(e, steps)
    \/ \E e \in Slots, outcome \in ToolOutcomes : InvokeReturn(e, outcome)
    \/ \E d \in TickSteps : Tick(d)

Spec == Init /\ [][Next]_vars

\* the manager run on a store in which payloads that are not JSON text
\* turn up: CorruptEntry(key) puts one under key.  The manager itself only
\* writes JSON.stringify output, so such a payload comes from outside it.
BadPayload == "{oops"
CorruptChains == {<<StepV>>, <<StepV, StepW>>}
CorruptKeys == {GenerateChainKey(c) : c \in CorruptChains} \cup {StepKey(StepW)}

CorruptEntry(key) ==
    /\ store' = CacheSet(store, key, BadPayload, ChainTTL, Undefined, clock)
    /\ origin' = MapSet(origin, key, [kind |-> "corrupt"])
    /\ stepDone' = MapDelete(stepDone, key)
    /\ UNCHANGED <<tools, clock, exec, last, calls, out, probe>>

NextCorrupt ==
    \/ \E config \in MetaConfigs : RegisterTool(config)
    \/ \E e \in Slots, steps \in CorruptChains : Call(e, steps)
    \/ \E e \in Slots, outcome \in ToolOutcomes : InvokeReturn(e, outcome)
    \/ \E d \in TickSteps : Tick(d)
    \/ \E key \in CorruptKeys : CorruptEntry(key)

SpecCorrupt == Init /\ [][NextCorrupt]_vars

\* the manager of the server (src/src/index.ts): its tools are registered
\* in the constructor, and the request handler calls executeChain on the
\* one manager for every request, so a second call can begin while the
\* first is suspended in an invocation
PairSlots == {1, 2}
PairChains == {<<StepV, StepW>>, <<StepW, StepV>>, <<StepV>>}

InitPair ==
    /\ tools = [name \in {"echo"} |-> ToolConfig("echo", EchoSchema, Undefined)]
    /\ store = EmptyMap
    /\ clock = 0
    /\ exec = [e \in PairSlots |-> Idle]
    /\ last = NoCall
    /\ calls = 0
    /\ origin = EmptyMap
    /\ stepDone = EmptyMap
    /\ out = Null
    /\ probe = Null

\* executeChain(chain) is called, whether or not another call is suspended
CallInterleaved(e, steps) ==
    /\ exec[e].pc = "idle"
    /\ calls < MaxCalls
    /\ calls' = calls + 1
    /\ Called(e, BeginChain(steps, calls + 1,
                            LiveOrigin(GenerateChainKey(steps), clock),
                            [k |-> 0, warm |-> FALSE],
                            tools, store, clock, stepDone))
    /\ UNCHANGED <<tools, clock, stepDone, out, probe>>

NextPair ==
    \/ \E e \in PairSlots, steps \in PairChains : CallInterleaved(e, steps)
    \/ \E e \in PairSlots, outcome \in ToolOutcomes : InvokeReturn(e, outcome)
    \/ \E d \in TickSteps : Tick(d)

SpecPair == InitPair /\ [][NextPair]_vars

\* the manager as the server ships it: the three tools of src/src/index.ts
\* are registered and executeTool is the method of ToolChainManager, which
\* throws
GenerateCodeConfig ==
    ToolConfig("generate_code",
               [properties |-> << <<"prompt", [type |-> Str("string")]>>,
                                  <<"language", [type |-> Str("string")]>>,
                                  <<"temperature", [type |-> Str("number")]>> >>,
                required |-> Arr(<<Str("prompt")>>)],
               Undefined)
CompleteCodeConfig ==
    ToolConfig("complete_code",
               [properties |-> << <<"code", [type |-> Str("string")]>>,
                                  <<"prompt", [type |-> Str("string")]>>,
                                  <<"temperature", [type |-> Str("number")]>> >>,
                required |-> Arr(<<Str("code"), Str("prompt")>>)],
               Undefined)
OptimizeCodeConfig ==
    ToolConfig("optimize_code",
               [properties |-> << <<"code", [type |-> Str("string")]>>,
                                  <<"target", [type |-> Str("string")]>> >>,
                required |-> Arr(<<Str("code")>>)],
               Bool(TRUE))

ShippedTools ==
    [name \in {"generate_code", "complete_code", "optimize_code"} |->
        CASE name = "generate_code" -> GenerateCodeConfig
          [] name = "complete_code" -> CompleteCodeConfig
          [] OTHER -> OptimizeCodeConfig]

\* mutant: the body of executeTool is empty, it returns undefined
ShippedOutcomesEmptyBody == {[kind |-> "return", value |-> Undefined]}

\* executeTool: throw new Error('Tool execution not implemented')
ShippedOutcomes ==
    {[kind |-> "throw", isError |-> TRUE, message |-> "Tool execution not implemented"]}

\* steps a request may carry: well-formed ones, one with a param of the
\* wrong type, one lacking a required param, one naming no tool
ShippedSteps ==
    { Step("generate_code", Obj(<< <<"prompt", Str("p")>> >>), Undefined),
      Step("generate_code", Obj(<< <<"prompt", Num(1)>> >>), MetaV),
      Step("complete_code", Obj(<< <<"code", Str("c")>> >>), Undefined),
      Step("optimize_code", Obj(<< <<"code", Str("c")>> >>), MetaW),
      Step("nope", Obj(<<>>), Undefined) }
ShippedChains == SeqUpTo(ShippedSteps, MaxChainLen)

InitShipped ==
    /\ tools = ShippedTools
    /\ store = EmptyMap
    /\ clock = 0
    /\ exec = [e \in Slots |-> Idle]
    /\ last = NoCall
    /\ calls = 0
    /\ origin = EmptyMap
    /\ stepDone = EmptyMap
    /\ out = Null
    /\ probe = Null

NextShipped ==
    \/ \E e \in Slots, steps \in ShippedChains : Call(e, steps)
    \/ \E e \in Slots, outcome \in ShippedOutcomes : InvokeReturn(e, outcome)
    \/ \E d \in TickSteps : Tick(d)

SpecShipped == InitShipped /\ [][NextShipped]_vars

\* the manager with one tool, run on two chains that differ only in the
\* metadata of their first step
StepHiW == Step("echo", HiParams, MetaW)
RelabelChains == {<<StepV, StepW>>, <<StepHiW, StepW>>}

NextRelabel ==
    \/ \E config \in MetaConfigs : RegisterTool(config)
    \/ \E e \in Slots, steps \in RelabelChains : Call(e, steps)
    \/ \E e \in Slots, outcome \in ToolOutcomes : InvokeReturn(e, outcome)
    \/ \E d \in TickSteps : Tick(d)

SpecRelabel == Init /\ [][NextRelabel]_vars

\* the manager with one tool, run on the chains whose steps carry metadata
NextMeta ==
    \/ \E config \in MetaConfigs : RegisterTool(config)
    \/ \E e \in Slots, steps \in MetaChains : Call(e, steps)
    \/ \E e \in Slots, outcome \in ToolOutcomes : InvokeReturn(e, outcome)
    \/ \E d \in TickSteps : Tick(d)

SpecMeta == Init /\ [][NextMeta]_vars

---------------------------------------------------------------------------
(* The Cache on its own: every public operation, called directly *)

CacheKeys == {"k1", "k2"}

\* the arguments of set: result, ttl (seconds), metadata
SetInputs ==
    { [result |-> "p", ttl |-> 1, metadata |-> Undefined],
      [result |-> "q", ttl |-> 0, metadata |-> MetaV] }

CacheTickSteps == {1000, 1001}

NoEntry == [result |-> "", timestamp |-> 0 - 1, ttl |-> 0, metadata |-> Undefined]

\* what an operation found under its key before it ran
Had(key) == IF key \in DOMAIN store THEN store[key] ELSE NoEntry

ManagerIdle == UNCHANGED <<tools, exec, last, calls, origin, stepDone, probe>>

CGet(key) ==
    /\ store' = CacheGet(store, key, clock).store
    /\ out' = [op |-> "get", key |-> key, had |-> Had(key),
               ret |-> CacheGet(store, key, clock).ret]
    /\ UNCHANGED clock
    /\ ManagerIdle

CSet(key, in) ==
    /\ store' = CacheSet(store, key, in.result, in.ttl, in.metadata, clock)
    /\ out' = [op |-> "set", key |-> key, had |-> Had(key), ret |-> Undefined]
    /\ UNCHANGED clock
    /\ ManagerIdle

CGetMetadata(key) ==
    /\ out' = [op |-> "getMetadata", key |-> key, had |-> Had(key),
               ret |-> CacheGetMetadata(store, key)]
    /\ UNCHANGED <<store, clock>>
    /\ ManagerIdle

CHas(key) ==
    /\ store' = CacheHas(store, key, clock).store
    /\ out' = [op |-> "has", key |-> key, had |-> Had(key),
               ret |-> CacheHas(store, key, clock).ret]
    /\ UNCHANGED clock
    /\ ManagerIdle

CDelete(key) ==
    /\ store' = CacheDelete(store, key)
    /\ out' = [op |-> "delete", key |-> key, had |-> Had(key), ret |-> Undefined]
    /\ UNCHANGED clock
    /\ ManagerIdle

CClear ==
    /\ store' = CacheClear(store)
    /\ out' = [op |-> "clear", key |-> "", had |-> NoEntry, ret |-> Undefined]
    /\ UNCHANGED clock
    /\ ManagerIdle

CCleanup ==
    /\ store' = CacheCleanup(store, clock)
    /\ out' = [op |-> "cleanup", key |-> "", had |-> NoEntry, ret |-> Undefined]
    /\ UNCHANGED clock
    /\ ManagerIdle

\* time passes between two operations
CacheTick(d) ==
    /\ clock + d <= MaxCacheClock
    /\ clock' = clock + d
    /\ out' = [op |-> "tick", key |-> "", had |-> NoEntry, ret |-> Undefined]
    /\ UNCHANGED store
    /\ ManagerIdle

NextCache ==
    \/ \E key \in CacheKeys : CGet(key)
    \/ \E key \in CacheKeys, in \in SetInputs : CSet(key, in)
    \/ \E key \in CacheKeys : CGetMetadata(key)
    \/ \E key \in CacheKeys : CHas(key)
    \/ \E key \in CacheKeys : CDelete(key)
    \/ CClear
    \/ CCleanup
    \/ \E d \in CacheTickSteps : CacheTick(d)

SpecCache == Init /\ [][NextCache]_vars

---------------------------------------------------------------------------
(* Two caches run through the same operations at the same times; on the   *)
(* second one (probe) cleanup() is also called in between, at any point   *)

InitTwin ==
    /\ tools = EmptyMap
    /\ store = EmptyMap
    /\ clock = 0
    /\ exec = [e \in Slots |-> Idle]
    /\ last = NoCall
    /\ calls = 0
    /\ origin = EmptyMap
    /\ stepDone = EmptyMap
    /\ out = Null
    /\ probe = EmptyMap

TwinIdle == UNCHANGED <<tools, exec, last, calls, origin, stepDone>>

\* the record of an operation: what it found and returned on the first
\* cache, and what it returned on the second
Both(op, key, ret, twin) ==
    [op |-> op, key |-> key, had |-> Had(key), ret |-> ret, twin |-> twin]

TwinGet(key) ==
    /\ store' = CacheGet(store, key, clock).store
    /\ probe' = CacheGet(probe, key, clock).store
    /\ out' = Both("get", key, CacheGet(store, key, clock).ret,
                   CacheGet(probe, key, clock).ret)
    /\ UNCHANGED clock
    /\ TwinIdle

TwinHas(key) ==
    /\ store' = CacheHas(store, key, clock).store
    /\ probe' = CacheHas(probe, key, clock).store
    /\ out' = Both("has", key, CacheHas(store, key, clock).ret,
                   CacheHas(probe, key, clock).ret)
    /\ UNCHANGED clock
    /\ TwinIdle

TwinSet(key, in) ==
    /\ store' = CacheSet(store, key, in.result, in.ttl, in.metadata, clock)
    /\ probe' = CacheSet(probe, key, in.result, in.ttl, in.metadata, clock)
    /\ out' = Both("set", key, Undefined, Undefined)
    /\ UNCHANGED clock
    /\ TwinIdle

TwinDelete(key) ==
    /\ store' = CacheDelete(store, key)
    /\ probe' = CacheDelete(probe, key)
    /\ out' = Both("delete", key, Undefined, Undefined)
    /\ UNCHANGED clock
    /\ TwinIdle

TwinClear ==
    /\ store' = CacheClear(store)
    /\ probe' = CacheClear(probe)
    /\ out' = [op |-> "clear", key |-> "", had |-> NoEntry, ret |-> Undefined,
               twin |-> Undefined]
    /\ UNCHANGED clock
    /\ TwinIdle

\* cleanup() is part of the sequence: it is called on both caches
TwinCleanup ==
    /\ store' = CacheCleanup(store, clock)
    /\ probe' = CacheCleanup(probe, clock)
    /\ out' = [op |-> "cleanup", key |-> "", had |-> NoEntry, ret |-> Undefined,
               twin |-> Undefined]
    /\ UNCHANGED clock
    /\ TwinIdle

\* cleanup() is called on the second cache only
InsertCleanup ==
    /\ probe' = CacheCleanup(probe, clock)
    /\ out' = [op |-> "inserted", key |-> "", had |-> NoEntry, ret |-> Undefined,
               twin |-> Undefined]
    /\ UNCHANGED <<store, clock>>
    /\ TwinIdle

TwinTick(d) ==
    /\ clock + d <= MaxCacheClock
    /\ clock' = clock + d
    /\ out' = [op |-> "tick", key |-> "", had |-> NoEntry, ret |-> Undefined,
               twin |-> Undefined]
    /\ UNCHANGED <<store, probe>>
    /\ TwinIdle

NextTwin ==
    \/ \E key \in CacheKeys : TwinGet(key)
    \/ \E key \in CacheKeys : TwinHas(key)
    \/ \E key \in CacheKeys, in \in SetInputs : TwinSet(key, in)
    \/ \E key \in CacheKeys : TwinDelete(key)
    \/ TwinClear
    \/ TwinCleanup
    \/ InsertCleanup
    \/ \E d \in CacheTickSteps : TwinTick(d)

SpecTwin == InitTwin /\ [][NextTwin]_vars

---------------------------------------------------------------------------
(* generateChainKey as a pure function: two chains are drawn, their keys   *)
(* are computed                                                            *)

\* steps as a caller may submit them: toolName is any string
KeySteps ==
    { Step("a", Obj(<<>>), Undefined),
      Step("a:{}|a", Obj(<<>>), Undefined),
      Step("b", Obj(<< <<"x", Num(1)>> >>), MetaV) }

KeyChains == SeqUpTo(KeySteps, MaxChainLen)

InitKey ==
    /\ tools = EmptyMap
    /\ store = EmptyMap
    /\ clock = 0
    /\ exec = [e \in Slots |-> Idle]
    /\ last = NoCall
    /\ calls = 0
    /\ origin = EmptyMap
    /\ stepDone = EmptyMap
    /\ out = Null
    /\ probe \in [a : KeyChains, b : KeyChains, done : {FALSE}, ka : {""}, kb : {""}]

ApplyGenerateChainKey ==
    /\ ~probe.done
    /\ probe' = [probe EXCEPT !.done = TRUE,
                              !.ka = GenerateChainKey(probe.a),
                              !.kb = GenerateChainKey(probe.b)]
    /\ UNCHANGED <<tools, store, clock, exec, last, calls, origin, stepDone, out>>

NextKey == ApplyGenerateChainKey

SpecKey == InitKey /\ [][NextKey]_vars

---------------------------------------------------------------------------
(* validateParams as a pure function: a params object and a schema are     *)
(* drawn, the validation is applied                                        *)

\* declared properties: name and SchemaProperty (the last one declares no
\* type)
ValProps ==
    { <<"msg", [type |-> Str("string")]>>,
      <<"n", [type |-> Str("number")]>>,
      <<"list", [type |-> Str("array")]>>,
      <<"any", [type |-> Undefined]>> }

\* schema.properties: up to MaxSchemaProps declared properties, each name once
ValProperties ==
    {ps \in SeqUpTo(ValProps, MaxSchemaProps) :
        \A j, q \in 1..Len(ps) : ps[j][1] = ps[q][1] => j = q}

ValSchemas ==
    [properties : ValProperties,
     required : {Undefined, Arr(<<Str("msg")>>), Arr(<<Str("n"), Str("ghost")>>)}]

\* the values a params object may hold under each name; <<>> stands for
\* the name being absent
ValValues ==
    [msg : {<<>>, <<Str("hi")>>, <<Num(1)>>, <<Undefined>>},
     n : {<<>>, <<Num(2)>>, <<Str("2")>>},
     list : {<<>>, <<Arr(<<>>)>>},
     any : {<<>>, <<Null>>},
     extra : {<<>>, <<Bool(TRUE)>>}]

ValField(name, held) == IF held = <<>> THEN <<>> ELSE << <<name, held[1]>> >>

ValParams ==
    {Obj(ValField("msg", v.msg) \o ValField("n", v.n) \o ValField("list", v.list)
         \o ValField("any", v.any) \o ValField("extra", v.extra)) : v \in ValValues}

InitValidate ==
    /\ tools = EmptyMap
    /\ store = EmptyMap
    /\ clock = 0
    /\ exec = [e \in Slots |-> Idle]
    /\ last = NoCall
    /\ calls = 0
    /\ origin = EmptyMap
    /\ stepDone = EmptyMap
    /\ out = Null
    /\ probe \in [params : ValParams, schema : ValSchemas, done : {FALSE},
                  res : {[ok |-> TRUE]}]

ApplyValidateParams ==
    /\ ~probe.done
    /\ probe' = [probe EXCEPT !.done = TRUE,
                              !.res = ValidateParams(probe.params, probe.schema)]
    /\ UNCHANGED <<tools, store, clock, exec, last, calls, origin, stepDone, out>>

NextValidate == ApplyValidateParams

SpecValidate == InitValidate /\ [][NextValidate]_vars

---------------------------------------------------------------------------
(* The chain helpers addStep, removeStep, clearChain, applied to a chain   *)
(* object the caller holds (probe), on a manager that has a tool and a     *)
(* cache entry                                                             *)

\* mutant: the step after the given index is removed
SpliceOneOffByOne(items, index) ==
    [j \in 1..(Len(items) - (IF index + 1 < Len(items) THEN 1 ELSE 0)) |->
        IF j <= index + 1 THEN items[j] ELSE items[j + 1]]

\* items.splice(index, 1): a negative index counts from the end, an index
\* at or beyond the length removes nothing
SpliceOne(items, index) ==
    LET n == Len(items)
        start == IF index < 0 THEN (IF n + index < 0 THEN 0 ELSE n + index)
                 ELSE (IF index > n THEN n ELSE index)
    IN IF start >= n THEN items
       ELSE [j \in 1..(n - 1) |-> IF j <= start THEN items[j] ELSE items[j + 1]]

\* a ToolChain's context after some steps have run
UsedContext ==
    [previousResults |-> <<Obj(<< <<"success", Bool(TRUE)>>, <<"result", Str("r1")>> >>)>>,
     metadata |-> MetaV]

HelperIndexes == (0 - 1)..MaxChainLen

\* a cache entry of the manager, as executeStep writes it
HelperStore ==
    CacheSet(EmptyMap, StepKey(Step("echo", HiParams, Undefined)),
             JSONstringify(Obj(<< <<"success", Bool(TRUE)>>, <<"result", Str("r1")>> >>)),
             StepTTL, Undefined, 0)

InitHelpers ==
    /\ tools \in {EmptyMap, MapSet(EmptyMap, "echo", ToolConfig("echo", EchoSchema, Undefined))}
    /\ store \in {EmptyMap, HelperStore}
    /\ clock = 0
    /\ exec = [e \in Slots |-> Idle]
    /\ last = NoCall
    /\ calls = 0
    /\ origin = EmptyMap
    /\ stepDone = EmptyMap
    /\ out = Null
    /\ probe \in [steps : Chains, context : {FreshContext, UsedContext}]

HelperFrame == UNCHANGED <<tools, store, clock, exec, last, calls, origin, stepDone>>

\* addStep(chain, step)
AddStep(step) ==
    /\ Len(probe.steps) <= MaxChainLen
    /\ probe' = [probe EXCEPT !.steps = Append(@, step)]
    /\ out' = [op |-> "addStep", before |-> probe, arg |-> step]
    /\ HelperFrame

\* removeStep(chain, index)
RemoveStep(index) ==
    /\ probe' = [probe EXCEPT !.steps = SpliceOne(@, index)]
    /\ out' = [op |-> "removeStep", before |-> probe, arg |-> index]
    /\ HelperFrame

\* clearChain(chain)
ClearChain ==
    /\ probe' = [steps |-> <<>>, context |-> [previousResults |-> <<>>, metadata |-> Obj(<<>>)]]
    /\ out' = [op |-> "clearChain", before |-> probe, arg |-> Null]
    /\ HelperFrame

NextHelpers ==
    \/ \E step \in StepPool : AddStep(step)
    \/ \E index \in HelperIndexes : RemoveStep(index)
    \/ ClearChain

SpecHelpers == InitHelpers /\ [][NextHelpers]_vars

\* executeChain(chain) on chain objects as a caller holds them: steps and
\* a context, empty as the request handler builds it (src/src/index.ts) or
\* left over from earlier use; probe is the caller's chain object
ChainObjects ==
    [steps : MetaChains,
     context : {[previousResults |-> <<>>, metadata |-> Obj(<<>>)], UsedContext}]

InitObject ==
    /\ tools = [name \in {"echo"} |-> ToolConfig("echo", EchoSchema, Undefined)]
    /\ store = EmptyMap
    /\ clock = 0
    /\ exec = [e \in Slots |-> Idle]
    /\ last = NoCall
    /\ calls = 0
    /\ origin = EmptyMap
    /\ stepDone = EmptyMap
    /\ out = Null
    /\ probe \in ChainObjects

\* executeChain(chain) with the caller's chain object
ExecuteChainOf(e) == Call(e, probe.steps)

\* the caller takes another chain object between two calls
TakeChain(chain) ==
    /\ InFlight = {}
    /\ probe' = chain
    /\ UNCHANGED <<tools, store, clock, exec, last, calls, origin, stepDone, out>>

NextObject ==
    \/ \E e \in Slots : ExecuteChainOf(e)
    \/ \E e \in Slots, outcome \in ToolOutcomes : InvokeReturn(e, outcome)
    \/ \E d \in TickSteps : Tick(d)
    \/ \E chain \in ChainObjects : TakeChain(chain)

SpecObject == InitObject /\ [][NextObject]_vars

---------------------------------------------------------------------------
(* Vocabulary of the properties *)

\* the completed call held in last, when there is one
Returned == last.n > 0
Missed == Returned /\ ~last.hit /\ ~last.raised

IsSuccess(r) == GetProp(r, "success") = Bool(TRUE)
IsFailure(r) == GetProp(r, "success") = Bool(FALSE)

LogHas(log, name, i) == \E q \in 1..Len(log) : log[q].ev = name /\ log[q].i = i
LogHasEv(log, name) == \E q \in 1..Len(log) : log[q].ev = name

\* two ToolResults that read the same: a property that is absent and one
\* that is undefined both read undefined
ResultProps == {"success", "result", "error", "metadata"}
SameResult(a, b) ==
    /\ a.t = b.t
    /\ IF a.t = "object"
       THEN \A k \in ResultProps : GetProp(a, k) = GetProp(b, k)
       ELSE a = b
SameList(a, b) ==
    /\ a.t = "array"
    /\ b.t = "array"
    /\ Len(a.v) = Len(b.v)
    /\ \A j \in 1..Len(a.v) : SameResult(a.v[j], b.v[j])

\* the (toolName, params) pairs of a chain, which is all its cache key reads
KeyPairs(steps) == [j \in 1..Len(steps) |-> <<steps[j].toolName, steps[j].params>>]

\* every payload in the manager's cache is a text JSON.parse accepts
PayloadsParse == \A k \in DOMAIN store : JSONparse(store[k].result).ok

---------------------------------------------------------------------------
(* C1: a call that misses the whole-chain cache returns a prefix-shaped    *)
(* record of the chain: at most one entry per step, entry j recorded for   *)
(* step j, every entry but the last successful, and nothing is done for    *)
(* any step after an entry whose success is false.                         *)

C1_PrefixRecord ==
    Missed =>
        LET res == last.ret.v
            log == last.log
        IN /\ last.ret.t = "array"
           /\ Len(res) <= Len(last.steps)
           /\ \A j \in 1..Len(res) :
                 /\ LogHas(log, "record", j)
                 /\ \E q \in 1..Len(log) :
                       /\ log[q] = Ev("resolve", j, last.steps[j].toolName)
           /\ \A j \in 1..(Len(res) - 1) : IsSuccess(res[j])
           /\ \A j \in 1..Len(res) :
                 IsFailure(res[j]) => \A q \in 1..Len(log) : log[q].i <= j
           /\ \A q \in 1..Len(log) : log[q].i <= Len(res)
           /\ \A q \in 1..(Len(log) - 1) :
                 log[q + 1].i >= log[q].i \/ log[q + 1].ev = "chainSet"

C1_Witness ==
    /\ Missed
    /\ Len(last.steps) = 2
    /\ Len(last.ret.v) = 1
    /\ IsFailure(last.ret.v[1])
    /\ LogHas(last.log, "invoke", 1)

(* C2: cache hit idempotence.  When the entry under the chain key is live  *)
(* at the call and was stored by a call with identical steps, all of whose *)
(* results succeeded, the call returns the list that call returned and     *)
(* invokes no tool.                                                        *)

C2_HitIdempotent ==
    ( /\ Returned
      /\ last.atStart.kind = "chain"
      /\ last.atStart.steps = last.steps
      /\ \A j \in 1..Len(last.atStart.value.v) : IsSuccess(last.atStart.value.v[j]) )
    => /\ ~last.raised
       /\ SameList(last.ret, last.atStart.value)
       /\ ~LogHasEv(last.log, "invoke")

C2_Witness ==
    /\ Returned
    /\ last.hit
    /\ last.atStart.kind = "chain"
    /\ last.atStart.steps = last.steps
    /\ Len(last.steps) = 2
    /\ Len(last.ret.v) = 2

(* C3: executeChain does not raise: whatever a step throws, and whatever   *)
(* the tool handler throws, becomes the last entry of the returned list,   *)
(* with success = false and the thrown message as its error.               *)

C4_HitReturnsStoredList ==
    (Returned /\ last.hit) =>
        /\ last.atStart.kind = "chain"
        /\ KeyPairs(last.atStart.steps) = KeyPairs(last.steps)
        /\ SameList(last.ret, last.atStart.value)
        /\ last.log = <<Ev("chainGet", 0, last.chainKey)>>

(* C5: a step that an earlier call invoked successfully, and whose step    *)
(* entry is within its TTL, is served to a later call from the step cache: *)
(* the same result, no invocation, and the chain goes on.                  *)

C5_StepReuse ==
    Missed =>
        \A q \in 1..Len(last.reuse) :
            LET i == last.reuse[q].i
            IN /\ Len(last.ret.v) >= i
               /\ SameResult(last.ret.v[i], last.reuse[q].value)
               /\ ~LogHas(last.log, "invoke", i)
               /\ i < Len(last.steps) => LogHas(last.log, "resolve", i + 1)

(* C6: the entry under the chain key is written only as the last act of a  *)
(* call all of whose results succeeded; a call that returns a failed entry *)
(* performs no write under its chain key.                                  *)

C6_ChainStoredOnlyOnSuccess ==
    /\ Missed =>
          LET res == last.ret.v
              log == last.log
              failed == \E j \in 1..Len(res) : ~IsSuccess(res[j])
          IN /\ LogHasEv(log, "chainSet") =>
                   /\ ~failed
                   /\ log[Len(log)] = Ev("chainSet", 0, last.chainKey)
                   /\ \A q \in 1..(Len(log) - 1) : log[q].ev /= "chainSet"
             /\ failed =>
                   \A q \in 1..Len(log) :
                       log[q].ev \in {"stepSet", "chainSet"} => log[q].key /= last.chainKey
    /\ \A k \in DOMAIN origin :
          origin[k].kind = "chain" =>
              \A j \in 1..Len(origin[k].value.v) : IsSuccess(origin[k].value.v[j])

C6_Witness ==
    /\ Missed
    /\ Len(last.ret.v) = 2
    /\ IsFailure(last.ret.v[2])
    /\ LogHas(last.log, "stepSet", 1)
    /\ last.chainKey \notin DOMAIN store

(* C10: a step whose tool is not registered gives the entry                *)
(* {success: false, error: 'Tool not found: <toolName>'}, which ends the   *)
(* returned list; the tool handler is not invoked and nothing is written   *)
(* to the cache for the step or for the chain.                             *)

C10_ToolNotFound ==
    Missed =>
        \A i \in 1..Len(last.steps) :
            ( /\ LogHas(last.log, "resolve", i)
              /\ last.steps[i].toolName \notin last.registered )
            => /\ Len(last.ret.v) = i
               /\ IsFailure(last.ret.v[i])
               /\ GetProp(last.ret.v[i], "error")
                     = Str("Tool not found: " \o last.steps[i].toolName)
               /\ ~LogHas(last.log, "invoke", i)
               /\ ~LogHas(last.log, "stepGet", i)
               /\ ~LogHas(last.log, "stepSet", i)
               /\ ~LogHasEv(last.log, "chainSet")

C10_Witness ==
    /\ Missed
    /\ Len(last.ret.v) = 2
    /\ last.steps[2].toolName \notin last.registered
    /\ GetProp(last.ret.v[2], "error") = Str("Tool not found: needs_prev")

\* the cache operation that ran last
Ran(op) == "op" \in DOMAIN out /\ out.op = op

(* C7: get returns the stored payload exactly when an entry is present    *)
(* and now - timestamp <= ttl * 1000; an expired entry gives null and is   *)
(* removed, and has gives false for it.                                    *)

C7_GetHonoursTtl ==
    (Ran("get") \/ Ran("has")) =>
        LET e == out.had
            live == e /= NoEntry /\ clock - e.timestamp <= e.ttl * 1000
        IN /\ Ran("get") => out.ret = (IF live THEN Str(e.result) ELSE Null)
           /\ Ran("has") => out.ret = Bool(live)
           /\ live => out.key \in DOMAIN store /\ store[out.key] = e
           /\ ~live => out.key \notin DOMAIN store

C7_Witness ==
    /\ Ran("get")
    /\ out.had /= NoEntry
    /\ out.had.ttl = 1
    /\ clock - out.had.timestamp = 1000
    /\ out.ret = Str(out.had.result)

(* C8: at every state and clock value, has(key) is true exactly when       *)
(* get(key) returns a payload, and has leaves the store as get does; the   *)
(* has that was called answered accordingly.                               *)

C8_HasIsGet ==
    /\ \A key \in CacheKeys :
          LET h == CacheHas(store, key, clock)
              g == CacheGet(store, key, clock)
          IN /\ h.ret = Bool(g.ret.t = "string")
             /\ h.store = g.store
    /\ Ran("has") =>
          /\ out.ret = Bool(out.had /= NoEntry
                            /\ clock - out.had.timestamp <= out.had.ttl * 1000)
          /\ store = CacheGet(store, out.key, clock).store

C8_Witness ==
    /\ Ran("has")
    /\ out.had /= NoEntry
    /\ clock - out.had.timestamp > out.had.ttl * 1000
    /\ out.ret = Bool(FALSE)
    /\ out.key \notin DOMAIN store
    /\ \E key \in DOMAIN store : CacheHas(store, key, clock).ret = Bool(TRUE)

(* C9: generateChainKey gives equal keys to chains with the same           *)
(* (toolName, params) pairs in the same order, and different keys to two   *)
(* chains that hold the same steps in a different order.                   *)

Occurrences(pairs, x) == Cardinality({j \in 1..Len(pairs) : pairs[j] = x})

Reordered(a, b) ==
    /\ Len(a) = Len(b)
    /\ KeyPairs(a) /= KeyPairs(b)
    /\ \A j \in 1..Len(a) :
          Occurrences(KeyPairs(a), KeyPairs(a)[j]) = Occurrences(KeyPairs(b), KeyPairs(a)[j])

C9_KeyOrderSensitive ==
    probe.done =>
        /\ KeyPairs(probe.a) = KeyPairs(probe.b) => probe.ka = probe.kb
        /\ Reordered(probe.a, probe.b) => probe.ka /= probe.kb

(* C11: a step whose registered tool requires previous results fails with *)
(* 'Tool <name> requires previous results' exactly when previousResults is *)
(* empty at its prerequisite check, which on a chain-cache miss is exactly *)
(* when it is the first step; at a later position the check passes.        *)

PrereqError(name) == Str("Tool " \o name \o " requires previous results")

C11_PrerequisiteAtFirstStep ==
    Missed =>
        \A i \in 1..Len(last.steps) :
            LET name == last.steps[i].toolName
                failedHere == /\ Len(last.ret.v) = i
                              /\ IsFailure(last.ret.v[i])
                              /\ GetProp(last.ret.v[i], "error") = PrereqError(name)
            IN ( /\ LogHas(last.log, "resolve", i)
                 /\ name \in DOMAIN last.tl )
               => LET requires == Truthy(last.tl[name].requiresPrevious)
                  IN /\ LogHas(last.log, "prereq", i)
                     /\ \A q \in 1..Len(last.log) :
                           (last.log[q].ev = "prereq" /\ last.log[q].i = i)
                               => last.log[q].key = ToString(i - 1)
                     /\ failedHere <=> (requires /\ i = 1)
                     /\ failedHere => ~LogHas(last.log, "validate", i)
                     /\ ~failedHere => LogHas(last.log, "validate", i)

C11_Witness ==
    /\ Missed
    /\ Len(last.steps) = 2
    /\ last.steps[2].toolName = "needs_prev"
    /\ "needs_prev" \in DOMAIN last.tl
    /\ Truthy(last.tl["needs_prev"].requiresPrevious)
    /\ LogHas(last.log, "invoke", 2)

(* C12: validateParams accepts exactly when every declared property that  *)
(* is listed in required is present in params and every declared property *)
(* that is present has the declared type tag; properties the schema does   *)
(* not declare play no part, and neither the params nor the cache nor the  *)
(* registry change.                                                        *)

ListedRequired(schema, key) ==
    /\ schema.required.t = "array"
    /\ \E q \in 1..Len(schema.required.v) : schema.required.v[q] = Str(key)

Conforms(params, schema) ==
    \A j \in 1..Len(schema.properties) :
        LET key == schema.properties[j][1]
            declared == schema.properties[j][2].type
        IN /\ ListedRequired(schema, key) => HasKey(params, key)
           /\ (HasKey(params, key) /\ declared.t = "string")
                 => TypeOf(GetProp(params, key)) = declared.v

C12_ValidateAccepts ==
    /\ []("done" \in DOMAIN probe =>
            /\ store = EmptyMap
            /\ tools = EmptyMap
            /\ probe.done => (probe.res.ok <=> Conforms(probe.params, probe.schema)))
    /\ [][probe'.params = probe.params /\ probe'.schema = probe.schema]_vars

C12_Witness ==
    /\ "res" \in DOMAIN probe
    /\ probe.done
    /\ probe.res.ok
    /\ Len(probe.schema.properties) = 2
    /\ ListedRequired(probe.schema, "msg")
    /\ HasKey(probe.params, "extra")
    /\ HasKey(probe.params, "msg")
    /\ probe.schema.properties[1][1] = "msg"

(* C13: addStep appends the step to the chain, removeStep removes the     *)
(* step at the given index and keeps the others in order, clearChain       *)
(* leaves no steps and an empty context; none of them changes the cache or *)
(* the registry.                                                           *)

\* items without its element at the 0-based index
Without(items, index) ==
    [j \in 1..(Len(items) - 1) |-> IF j <= index THEN items[j] ELSE items[j + 1]]

C13_HelpersEditOnlyTheChain ==
    /\ []( /\ Ran("addStep") =>
                /\ probe.steps = out.before.steps \o <<out.arg>>
                /\ probe.context = out.before.context
           /\ Ran("removeStep") =>
                /\ probe.context = out.before.context
                /\ (out.arg >= 0 /\ out.arg < Len(out.before.steps))
                      => probe.steps = Without(out.before.steps, out.arg)
                /\ out.arg >= Len(out.before.steps) => probe.steps = out.before.steps
                /\ \/ probe.steps = out.before.steps
                   \/ \E index \in 0..(Len(out.before.steps) - 1) :
                         probe.steps = Without(out.before.steps, index)
           /\ Ran("clearChain") =>
                /\ probe.steps = <<>>
                /\ probe.context = FreshContext )
    /\ [][(Ran("addStep") \/ Ran("removeStep") \/ Ran("clearChain"))'
             => (store' = store /\ tools' = tools)]_vars

C13_Witness ==
    /\ Ran("removeStep")
    /\ out.arg = 0
    /\ Len(out.before.steps) = 2
    /\ out.before.steps[1] /= out.before.steps[2]
    /\ probe.steps = <<out.before.steps[2]>>
    /\ store = HelperStore
    /\ tools /= EmptyMap

(* C14: when a call ended with a failed invocation at step k, the next    *)
(* call of the identical chain (same registry) is not served from the      *)
(* whole-chain cache; while the step entries of the steps before k are     *)
(* within their TTL it serves those steps from the step cache without      *)
(* invoking, and it invokes the tool again for step k.                     *)

C15_FailureCarriesMetadata ==
    Missed =>
        \A q \in 1..Len(last.log) :
            ( /\ last.log[q].ev \in {"throw", "caught"}
              /\ LogHas(last.log, "validate", last.log[q].i) )
            => LET i == last.log[q].i
               IN /\ Len(last.ret.v) = i
                  /\ GetProp(last.ret.v[i], "success") = Bool(FALSE)
                  /\ GetProp(last.ret.v[i], "result") = Null
                  /\ GetProp(last.ret.v[i], "error") = Str(last.log[q].key)
                  /\ GetProp(last.ret.v[i], "metadata") = last.steps[i].metadata

(* C16: while step i of a call is being invoked, context.previousResults  *)
(* is the list of the results of the steps before i, in order and all      *)
(* successful, and context.metadata holds, for every key of their          *)
(* metadata, the value of the last of those results that has the key, and  *)
(* nothing else.                                                           *)

\* the positions of the results whose metadata has the key
Holders(results, key) ==
    {j \in 1..Len(results) :
        /\ GetProp(results[j], "metadata").t = "object"
        /\ HasKey(GetProp(results[j], "metadata"), key)}

MetaKeys == {"k", "n"}

C16_ContextThreading ==
    \A e \in Slots :
        exec[e].pc = "invoking" =>
            LET x == exec[e]
                Latest(key) == CHOOSE j \in Holders(x.results, key) :
                                  \A q \in Holders(x.results, key) : q <= j
            IN /\ Len(x.results) = x.i - 1
               /\ x.context.previousResults = x.results
               /\ \A j \in 1..Len(x.results) : IsSuccess(x.results[j])
               /\ x.context.metadata.t = "object"
               /\ \A j \in 1..Len(x.context.metadata.v) :
                     x.context.metadata.v[j][1] \in MetaKeys
               /\ \A key \in MetaKeys :
                     IF Holders(x.results, key) = {}
                     THEN ~HasKey(x.context.metadata, key)
                     ELSE GetProp(x.context.metadata, key)
                             = GetProp(GetProp(x.results[Latest(key)], "metadata"), key)

C16_Witness ==
    /\ exec[1].pc = "invoking"
    /\ exec[1].i = 3
    /\ exec[1].steps = <<StepW, StepV, StepPlain>>
    /\ GetProp(exec[1].context.metadata, "k") = Str("v")
    /\ GetProp(exec[1].context.metadata, "n") = Str("x")

(* C17: the steps of a call run strictly one after the other: whatever is *)
(* done for a step (resolve, checks, cache lookup, invocation) comes after *)
(* the result of the step before it was recorded, and while the invocation *)
(* of step i is suspended nothing has been done for a later step.          *)

\* in this log everything done for step j > 1 comes after the record of j - 1
Sequential(log) ==
    \A q \in 1..Len(log) :
        log[q].i >= 2 =>
            \E r \in 1..(q - 1) : log[r] = Ev("record", log[q].i - 1, "")

C17_StepsSequential ==
    /\ \A e \in Slots :
          exec[e].pc = "invoking" =>
              /\ Sequential(exec[e].log)
              /\ \A q \in 1..Len(exec[e].log) : exec[e].log[q].i <= exec[e].i
              /\ ~LogHas(exec[e].log, "record", exec[e].i)
              /\ Len(exec[e].results) = exec[e].i - 1
              /\ exec[e].log[Len(exec[e].log)] = Ev("invoke", exec[e].i, "")
    /\ Returned => Sequential(last.log)

C17_Witness ==
    /\ exec[1].pc = "invoking"
    /\ exec[1].i = 1
    /\ Len(exec[1].steps) = 2
    /\ exec[1].n = 1
    /\ clock > 0
    /\ stepDone = EmptyMap
    /\ store = EmptyMap

(* C18: within a step the tool is resolved, then the prerequisite is     *)
(* checked, then the params are validated, then the step cache is read,   *)
(* then the tool is invoked.  A step that fails a check does nothing that *)
(* comes later: with the tool not registered, the prerequisite unmet or   *)
(* the params invalid under the contract registered at the time, the step *)
(* cache is not read and its entry not returned; the step fails.          *)

\* what the call did for its step i, in order, as the names of the events
StepTrace(log, i) ==
    LET Mine(ev) == ev.i = i /\ ev.ev /= "record"
        mine == SelectSeq(log, Mine)
    IN [q \in 1..Len(mine) |-> mine[q].ev]

\* the trace the code prescribes for step i of steps under the registry tl
ChecksInOrder(steps, tl, log, i) ==
    LET step == steps[i]
        tool == ToolsGet(tl, step.toolName)
        trace == StepTrace(log, i)
    IN IF tool = Undefined
       THEN trace = <<"resolve", "throw">>
       ELSE IF Truthy(tool.requiresPrevious) /\ i = 1
       THEN trace = <<"resolve", "prereq", "throw">>
       ELSE IF ~ValidateParams(step.params, tool.inputSchema).ok
       THEN trace = <<"resolve", "prereq", "validate", "throw">>
       ELSE trace \in { <<"resolve", "prereq", "validate", "stepGet">>,
                        <<"resolve", "prereq", "validate", "stepGet", "invoke">>,
                        <<"resolve", "prereq", "validate", "stepGet", "invoke",
                          "stepSet">>,
                        <<"resolve", "prereq", "validate", "stepGet", "invoke",
                          "caught">> }

\* step i of the finished call threw in one of its checks
FailedCheck(c, i) ==
    /\ i \in 1..Len(c.steps)
    /\ LogHas(c.log, "throw", i)

C18_ChecksInOrder ==
    /\ \A e \in Slots :
          exec[e].pc = "invoking" =>
              \A i \in 1..exec[e].i :
                  ChecksInOrder(exec[e].steps, exec[e].tl, exec[e].log, i)
    /\ Missed =>
          \A i \in 1..Len(last.steps) :
              IF LogHas(last.log, "resolve", i)
              THEN /\ ChecksInOrder(last.steps, last.tl, last.log, i)
                   /\ FailedCheck(last, i) =>
                         /\ Len(last.ret.v) = i
                         /\ IsFailure(last.ret.v[i])
              ELSE StepTrace(last.log, i) = <<>>

\* the second call finds echo re-registered with the stricter schema; its
\* first step fails validation while the step entry of the first call is
\* still live in the store
C18_Witness ==
    /\ Missed
    /\ last.n = 2
    /\ Len(last.steps) = 2
    /\ last.steps[1] = Step("echo", HiParams, Undefined)
    /\ "echo" \in DOMAIN last.tl
    /\ last.tl["echo"].inputSchema = StrictSchema
    /\ StepTrace(last.log, 1) = <<"resolve", "prereq", "validate", "throw">>
    /\ StepKey(last.steps[1]) \in DOMAIN store
    /\ ~Expired(store[StepKey(last.steps[1])], clock)
    /\ StepKey(last.steps[1]) \in DOMAIN origin
    /\ origin[StepKey(last.steps[1])].kind = "step"

(* C19: a payload under the chain key or under a step key that does not  *)
(* parse is a miss.  The call does not raise and returns no such payload: *)
(* after the failed parse of the chain entry it goes on to its steps,     *)
(* after the failed parse of a step entry it invokes the tool; and when   *)
(* the step, or the whole chain, succeeds the entry is overwritten with   *)
(* the text of the fresh result.                                          *)

\* in this log a failed parse is followed by the fresh computation
FallsThrough(log, steps) ==
    \A q \in 1..Len(log) :
        log[q].ev = "parseError" =>
            IF log[q].i = 0
            THEN \/ steps = <<>>
                 \/ /\ q < Len(log)
                    /\ log[q + 1].ev = "resolve" /\ log[q + 1].i = 1
            ELSE /\ q < Len(log)
                 /\ log[q + 1] = Ev("invoke", log[q].i, "")

\* the log and the results of the call in the slot as they stand
LogNow(x, c) == IF x.pc = "invoking" THEN x.log ELSE c.log
ResultsNow(x, c) == IF x.pc = "invoking" THEN x.results ELSE c.ret.v

\* the step of the slot's call, suspended in the invocation of its step
\* after a failed parse of the step entry, is invoked with success: the
\* entry under the step key now holds the text of the fresh result (of the
\* chain result where the chain key is the same key and the chain is stored)
StepOverwritten ==
    LET x == exec[1]
        key == StepKey(x.steps[x.i])
        log == LogNow(exec'[1], last')
        results == ResultsNow(exec'[1], last')
    IN (/\ x.pc = "invoking"
        /\ LogHas(x.log, "parseError", x.i)
        /\ LogHas(log, "stepSet", x.i)
        /\ store' /= store)
       => /\ key \in DOMAIN store'
          /\ store'[key].timestamp = clock
          /\ store'[key].result =
                IF key = x.chainKey /\ LogHasEv(log, "chainSet")
                THEN JSONstringify(Arr(results))
                ELSE JSONstringify(results[x.i])
          /\ IsSuccess(results[x.i])

\* a call that found a chain payload it could not parse returns with every
\* step successful: the entry under the chain key now holds the text of
\* the list it returns
ChainOverwritten ==
    (/\ last' /= last
     /\ last'.n > 0
     /\ LogHas(last'.log, "parseError", 0)
     /\ Len(last'.ret.v) = Len(last'.steps)
     /\ \A j \in 1..Len(last'.ret.v) : IsSuccess(last'.ret.v[j]))
    => /\ LogHasEv(last'.log, "chainSet")
       /\ last'.chainKey \in DOMAIN store'
       /\ store'[last'.chainKey].timestamp = clock
       /\ store'[last'.chainKey].result = JSONstringify(last'.ret)

C19_MalformedIsMiss ==
    /\ [](/\ \A e \in Slots :
                exec[e].pc = "invoking" => FallsThrough(exec[e].log, exec[e].steps)
          /\ Returned =>
                /\ ~last.raised
                /\ FallsThrough(last.log, last.steps)
                /\ LogHasEv(last.log, "parseError") =>
                      /\ ~last.hit
                      /\ last.ret.t = "array"
                      /\ Len(last.ret.v) <= Len(last.steps))
    /\ [][StepOverwritten /\ ChainOverwritten]_vars

\* a call found malformed payloads under its chain key and under the key
\* of its second step, and returned with both entries overwritten
C19_Witness ==
    /\ Missed
    /\ last.steps = <<StepV, StepW>>
    /\ LogHas(last.log, "parseError", 0)
    /\ LogHas(last.log, "parseError", 2)
    /\ LogHas(last.log, "stepSet", 2)
    /\ LogHasEv(last.log, "chainSet")
    /\ last.chainKey \in DOMAIN store
    /\ store[last.chainKey].result = JSONstringify(last.ret)
    /\ StepKey(StepW) \in DOMAIN store
    /\ store[StepKey(StepW)].result = JSONstringify(last.ret.v[2])

(* C20: getMetadata(key) leaves the store as it is and does not look at  *)
(* the ttl: for an entry that has expired but is still in the store it    *)
(* returns the entry's metadata, while get returns null; for a key with   *)
(* no entry (never set, or removed by get, has, cleanup, delete or clear) *)
(* it returns null.                                                       *)

\* what getMetadata answers for the entry e found under its key
MetadataOf(e) == IF e /= NoEntry /\ Truthy(e.metadata) THEN e.metadata ELSE Null

C20_GetMetadataIgnoresTtl ==
    /\ [](/\ \A key \in CacheKeys :
                /\ CacheGetMetadata(store, key) = MetadataOf(Had(key))
                /\ (key \in DOMAIN store /\ Expired(store[key], clock)) =>
                      CacheGet(store, key, clock).ret = Null
          /\ Ran("getMetadata") =>
                /\ out.ret = MetadataOf(out.had)
                /\ Had(out.key) = out.had
          /\ (Ran("get") \/ Ran("has") \/ Ran("delete")) =>
                (out.key \notin DOMAIN store =>
                    CacheGetMetadata(store, out.key) = Null)
          /\ Ran("clear") =>
                \A key \in CacheKeys : CacheGetMetadata(store, key) = Null
          /\ Ran("cleanup") =>
                \A key \in CacheKeys :
                    IF key \in DOMAIN store THEN ~Expired(store[key], clock)
                    ELSE CacheGetMetadata(store, key) = Null)
    /\ [][(out' /= out /\ out'.op = "getMetadata") => store' = store]_vars

\* getMetadata was called on an entry whose ttl had elapsed and that was
\* still in the store: it returned the metadata, and get would return null
C20_Witness ==
    /\ Ran("getMetadata")
    /\ out.had /= NoEntry
    /\ Expired(out.had, clock)
    /\ out.ret = MetaV
    /\ out.key \in DOMAIN store
    /\ CacheGet(store, out.key, clock).ret = Null

(* C21: cleanup() removes exactly the entries that are expired when it   *)
(* is called and leaves every other entry as it is; so a cache on which   *)
(* cleanup() is also called in between answers every get and has as the   *)
(* cache run through the same operations without those calls.             *)

\* the step from store to store' removed the expired entries and nothing else
RemovedExpiredOnly(before, after, now) ==
    \A key \in CacheKeys :
        IF key \in DOMAIN before /\ now - before[key].timestamp <= before[key].ttl * 1000
        THEN key \in DOMAIN after /\ after[key] = before[key]
        ELSE key \notin DOMAIN after

C21_CleanupIsUnobservable ==
    /\ []((Ran("get") \/ Ran("has")) => out.twin = out.ret)
    /\ [][/\ out'.op = "cleanup" =>
                /\ RemovedExpiredOnly(store, store', clock)
                /\ RemovedExpiredOnly(probe, probe', clock)
          /\ out'.op = "inserted" => RemovedExpiredOnly(probe, probe', clock)]_vars

\* the inserted cleanup removed an expired entry that the first cache still
\* held when get was called on it: both answered null
C21_Witness ==
    /\ Ran("get")
    /\ out.had /= NoEntry
    /\ out.had.metadata = MetaV
    /\ out.ret = Null
    /\ out.twin = Null
    /\ probe /= store
    /\ DOMAIN store = {"k1"}
    /\ DOMAIN probe = {}

(* C22: set(key, ...) replaces the whole entry under key: payload, ttl   *)
(* and metadata are the arguments of the call (no metadata when none was  *)
(* passed), the timestamp is the time of the call, and no other entry     *)
(* changes.  No other operation changes an entry: they leave it or remove *)
(* it.  So a read never extends the life of an entry, which expires ttl   *)
(* after the set that wrote it.                                           *)

\* the entry a set with the arguments in writes at time now
Written(in, now) ==
    [result |-> in.result, timestamp |-> now, ttl |-> in.ttl, metadata |-> in.metadata]

SetReplaces ==
    out'.op = "set" =>
        /\ DOMAIN store' = DOMAIN store \cup {out'.key}
        /\ \E in \in SetInputs : store'[out'.key] = Written(in, clock)
        /\ \A key \in DOMAIN store \ {out'.key} : store'[key] = store[key]

OnlySetWrites ==
    out'.op /= "set" =>
        /\ DOMAIN store' \subseteq DOMAIN store
        /\ \A key \in DOMAIN store' : store'[key] = store[key]

C22_SetReplacesOnlySetStamps ==
    /\ [](/\ \A key \in DOMAIN store :
                /\ store[key].timestamp <= clock
                /\ \E in \in SetInputs :
                      store[key] = Written(in, store[key].timestamp)
          /\ (Ran("get") /\ out.ret /= Null) =>
                /\ out.key \in DOMAIN store
                /\ store[out.key] = out.had
          /\ (Ran("has") /\ out.ret = Bool(TRUE)) =>
                /\ out.key \in DOMAIN store
                /\ store[out.key] = out.had)
    /\ [][SetReplaces /\ OnlySetWrites]_vars

\* an entry with metadata was replaced, at a later time, by a set that
\* passed none
C22_Witness ==
    /\ Ran("set")
    /\ out.had /= NoEntry
    /\ out.had.metadata = MetaV
    /\ out.had.timestamp < clock
    /\ store[out.key] = [result |-> "p", timestamp |-> clock, ttl |-> 1,
                         metadata |-> Undefined]
    /\ \E key \in DOMAIN store \ {out.key} : store[key].timestamp < clock

(* C23: step entries and chain entries are never confused: no key that a *)
(* call uses for the step cache is a key it uses for the whole-chain      *)
(* cache, the whole-chain lookup never reads an entry written by a step,  *)
(* and what a step takes from the step cache is a single ToolResult.      *)

\* the keys under which the log reads or writes entries of the kinds named
KeysOf(log, names) == {log[q].key : q \in {j \in 1..Len(log) : log[j].ev \in names}}

C23_StepAndChainKeysApart ==
    Returned =>
        /\ KeysOf(last.log, {"stepGet", "stepSet"})
              \cap KeysOf(last.log, {"chainGet", "chainSet"}) = {}
        /\ last.atStart.kind /= "step"
        /\ ~last.raised =>
              /\ last.ret.t = "array"
              /\ \A j \in 1..Len(last.ret.v) : last.ret.v[j].t = "object"

(* C24: every successful entry of the list a call returns carries the    *)
(* metadata of the step at its position in the submitted chain, also when *)
(* the entry comes from the step cache or from the whole-chain cache.     *)

C24_SuccessCarriesStepMetadata ==
    (Returned /\ ~last.raised /\ last.ret.t = "array") =>
        \A j \in 1..Len(last.ret.v) :
            IsSuccess(last.ret.v[j]) =>
                /\ j <= Len(last.steps)
                /\ GetProp(last.ret.v[j], "metadata") = last.steps[j].metadata

(* C25: when two calls are in flight on one manager and interleave where *)
(* an invocation is suspended, a step (toolName, params) that occurs in   *)
(* both is invoked at most once, and the context of each call holds only  *)
(* the results that call recorded.                                        *)

\* the step keys of the steps the call x has invoked so far
Invoked(x) ==
    IF x.pc = "idle" THEN {}
    ELSE {StepKey(x.steps[x.log[q].i]) :
             q \in {j \in 1..Len(x.log) : x.log[j].ev = "invoke"}}

C25_InvokedAtMostOnce ==
    /\ \A e \in PairSlots :
          exec[e].pc = "invoking" =>
              exec[e].context.previousResults = exec[e].results
    /\ \A e, f \in PairSlots :
          e /= f => Invoked(exec[e]) \cap Invoked(exec[f]) = {}

(* C26: executeChain does not read or change the context of the chain    *)
(* object, and does not change its steps: whatever chain.context holds,   *)
(* the first step runs on empty previousResults and empty metadata, the   *)
(* context of every later step is made of the results of this call only,  *)
(* and the chain object is the same after every step of the call.         *)

C26_ChainObjectUntouched ==
    /\ [](\A e \in Slots :
             exec[e].pc = "invoking" =>
                 /\ exec[e].steps = probe.steps
                 /\ exec[e].context.previousResults = exec[e].results
                 /\ exec[e].i = 1 =>
                       /\ exec[e].context.previousResults = <<>>
                       /\ exec[e].context.metadata = Obj(<<>>)
                 /\ (\A j \in 1..Len(exec[e].results) :
                        ~HasKey(exec[e].results[j], "metadata")) =>
                       exec[e].context.metadata = Obj(<<>>))
    /\ [][(calls' /= calls \/ exec' /= exec \/ store' /= store \/ last' /= last)
             => probe' = probe]_vars

\* the first step of a call is being invoked on an empty context while the
\* chain object holds a context with a result and metadata
C26_Witness ==
    /\ exec[1].pc = "invoking"
    /\ exec[1].i = 1
    /\ probe.context = UsedContext
    /\ probe.steps = exec[1].steps
    /\ exec[1].context.previousResults = <<>>
    /\ exec[1].context.metadata = Obj(<<>>)
    /\ exec[1].n = 2

(* C27: with the manager as shipped, whose executeTool throws, a call on  *)
(* a non-empty chain returns a list of one entry, a failure; no step ever *)
(* has a successful result; and the cache never holds an entry other than *)
(* the one of the empty chain.                                            *)

====
